---- MODULE Spec2Model ----
(***************************************************************************)
(* Model of the Prometheus instrumentation of the lynx-mongodb plugin      *)
(* (src/prometheus.go): the metrics registry, the command monitor, the     *)
(* pool monitor, health-check recording, and the two pure helpers          *)
(* mapCommandNameToOperation and extractDocumentsFromReply.                *)
(*                                                                         *)
(* Encodings.  A Go pointer is a sequence of length at most one: <<>> is   *)
(* nil and <<x>> points to x.  An optional BSON field is encoded the same  *)
(* way.  Durations are whole milliseconds.  A metric vector is a function  *)
(* from label maps to values whose domain grows as With(labels) creates    *)
(* children; a histogram child keeps its observation count and their sum   *)
(* (its buckets are not modelled).                                         *)
(*                                                                         *)
(* Spec runs every entry point and handler to its end, one call after      *)
(* another.  SpecCmd and SpecHealth run the command handlers and           *)
(* RecordHealthCheck on two threads, one shared-state statement per step.  *)
(* SpecPool runs the pool handler the same way.  SpecPure applies the      *)
(* constructor, the classifier and the extractor to inputs drawn from      *)
(* bounded sets.  The variables acquired, returned, paired, life, orderly, *)
(* nSucceeded, nFailed, hcTrue, hcFalse and calls record what the callers  *)
(* and the driver have done; the program does not read them.               *)
(***************************************************************************)
EXTENDS Integers, Sequences, FiniteSets, TLC

\* ------------------------------------------------------------------ bounds

\* Largest count a numeric reply field carries in the pure-function inputs.
MaxCount == 1
\* Longest cursor batch in the pure-function inputs.
MaxBatchLen == 1
\* Number of entry-point calls made in Spec and in SpecHealth.
MaxCalls == 4
\* Number of command events delivered to the concurrent handlers in SpecCmd.
MaxCmdEvents == 4
\* Number of pool events delivered to the concurrent handlers in SpecPool.
MaxPoolEvents == 4

\* ------------------------------------------------------------- pointers

Nil == <<>>

Ptr(x) == <<x>>

Deref(p) == p[1]

\* ---------------------------------------------------- OperationClassifier

mapCommandNameToOperation_CaseFolding(cmdName) ==
    CASE cmdName \in {"find", "findOne", "Find"} -> "find"
      [] cmdName \in {"insert", "insertOne", "insertMany"} -> "insert"
      [] cmdName \in {"update", "updateOne", "updateMany"} -> "update"
      [] cmdName \in {"delete", "deleteOne", "deleteMany", "remove"} -> "delete"
      [] cmdName \in {"aggregate"} -> "aggregate"
      [] OTHER -> cmdName

mapCommandNameToOperation(cmdName) ==
    CASE cmdName \in {"find", "findOne"} -> "find"
      [] cmdName \in {"insert", "insertOne", "insertMany"} -> "insert"
      [] cmdName \in {"update", "updateOne", "updateMany"} -> "update"
      [] cmdName \in {"delete", "deleteOne", "deleteMany", "remove"} -> "delete"
      [] cmdName \in {"aggregate"} -> "aggregate"
      [] OTHER -> cmdName

\* ---------------------------------------------------- ReplyCountExtractor

\* A cursor batch of k documents.
BatchOf(k) == [i \in 1..k |-> "doc"]

\* A reply payload (bson.Raw): empty bytes, bytes bson.Unmarshal rejects, or a
\* document whose fields of interest are each absent (<<>>) or present (<<v>>).
NilReply ==
    [kind |-> "empty", n |-> <<>>, nModified |-> <<>>, nInserted |-> <<>>,
     nRemoved |-> <<>>, nDropped |-> <<>>, cursor |-> <<>>]

MalformedReply == [NilReply EXCEPT !.kind = "malformed"]

\* Bytes bson.Unmarshal rejects after it has decoded a leading n element into
\* the struct.
TruncatedReply == [MalformedReply EXCEPT !.n = <<2>>]

DocReply(n, nModified, nInserted, nRemoved, nDropped, cursor) ==
    [kind |-> "doc", n |-> n, nModified |-> nModified, nInserted |-> nInserted,
     nRemoved |-> nRemoved, nDropped |-> nDropped, cursor |-> cursor]

\* The zero value a struct field keeps when the document has no such element.
FieldOrZero(f) == IF f = <<>> THEN 0 ELSE f[1]

\* bson.Unmarshal(reply, &doc): an error for undecodable bytes, else the struct.
Unmarshal(reply) ==
    [err |-> reply.kind # "doc",
     doc |-> [N |-> FieldOrZero(reply.n),
              NModified |-> FieldOrZero(reply.nModified),
              NInserted |-> FieldOrZero(reply.nInserted),
              NRemoved |-> FieldOrZero(reply.nRemoved),
              NDropped |-> FieldOrZero(reply.nDropped),
              Cursor |-> reply.cursor]]

extractDocumentsFromReply_ModifiedFirst(reply, cmdName) ==
    IF reply.kind = "empty" THEN 0
    ELSE LET r == Unmarshal(reply)
             doc == r.doc
         IN  IF r.err THEN 0
             ELSE IF doc.NModified # 0 THEN doc.NModified
             ELSE IF doc.N # 0 THEN doc.N
             ELSE IF doc.NInserted # 0 THEN doc.NInserted
             ELSE IF doc.NRemoved # 0 THEN doc.NRemoved
             ELSE IF doc.Cursor # Nil /\ Len(Deref(doc.Cursor).nextBatch) > 0
                  THEN Len(Deref(doc.Cursor).nextBatch)
             ELSE 0

extractDocumentsFromReply_ErrorIgnored(reply, cmdName) ==
    IF reply.kind = "empty" THEN 0
    ELSE LET doc == Unmarshal(reply).doc
         IN  IF doc.N # 0 THEN doc.N
             ELSE IF doc.NModified # 0 THEN doc.NModified
             ELSE IF doc.NInserted # 0 THEN doc.NInserted
             ELSE IF doc.NRemoved # 0 THEN doc.NRemoved
             ELSE IF doc.Cursor # Nil /\ Len(Deref(doc.Cursor).firstBatch) > 0
                  THEN Len(Deref(doc.Cursor).firstBatch)
             ELSE IF doc.Cursor # Nil /\ Len(Deref(doc.Cursor).nextBatch) > 0
                  THEN Len(Deref(doc.Cursor).nextBatch)
             ELSE 0

extractDocumentsFromReply(reply, cmdName) ==
    IF reply.kind = "empty" THEN 0
    ELSE LET r == Unmarshal(reply)
             doc == r.doc
         IN  IF r.err THEN 0
             ELSE IF doc.N # 0 THEN doc.N
             ELSE IF doc.NModified # 0 THEN doc.NModified
             ELSE IF doc.NInserted # 0 THEN doc.NInserted
             ELSE IF doc.NRemoved # 0 THEN doc.NRemoved
             ELSE IF doc.Cursor # Nil /\ Len(Deref(doc.Cursor).firstBatch) > 0
                  THEN Len(Deref(doc.Cursor).firstBatch)
             ELSE IF doc.Cursor # Nil /\ Len(Deref(doc.Cursor).nextBatch) > 0
                  THEN Len(Deref(doc.Cursor).nextBatch)
             ELSE 0

\* ------------------------------------------------------------------ inputs

\* Command names handed to the classifier: the thirteen mapped names, the
\* empty string, differently-cased variants and unmapped commands.
CommandNames ==
    {"find", "findOne", "insert", "insertOne", "insertMany", "update",
     "updateOne", "updateMany", "delete", "deleteOne", "deleteMany", "remove",
     "aggregate", "", "Find", "FIND", "Remove", "unknownCmd", "ping", "count",
     "findAndModify", "getMore"}

\* Command names handed to the extractor, which does not branch on them.
ExtractCommandNames == {"find", "update"}

NumericFields == {<<>>} \cup {<<v>> : v \in -1..MaxCount}

CursorFields ==
    {<<>>} \cup {<<[firstBatch |-> BatchOf(a), nextBatch |-> BatchOf(b)]>> :
                    a \in 0..MaxBatchLen, b \in 0..MaxBatchLen}

DocReplies ==
    {DocReply(n, nm, ni, nr, nd, c) :
        n \in NumericFields, nm \in NumericFields, ni \in NumericFields,
        nr \in NumericFields, nd \in {<<>>, <<1>>}, c \in CursorFields}

Replies == {NilReply, MalformedReply, TruncatedReply} \cup DocReplies

\* Request identifiers the driver assigns.
RequestIDs == {1, 2}

\* Command names carried by command events.
EventCommandNames == {"findOne", "ping"}

\* Elapsed times (milliseconds) carried by completion events.
Durations == {1, 20}

\* Reply payloads carried by succeeded events; their extracted counts are
\* 0, 0, 2, 1 and -1.
EventReplies ==
    {NilReply, MalformedReply,
     DocReply(<<2>>, <<>>, <<>>, <<>>, <<>>, <<>>),
     DocReply(<<0>>, <<>>, <<>>, <<>>, <<>>,
              <<[firstBatch |-> BatchOf(1), nextBatch |-> BatchOf(0)]>>),
     DocReply(<<-1>>, <<>>, <<>>, <<>>, <<>>, <<>>)}

CommandStartedEvents == [RequestID : RequestIDs, CommandName : EventCommandNames]

CommandSucceededEvents ==
    [RequestID : RequestIDs, CommandName : EventCommandNames,
     Duration : Durations, Reply : EventReplies]

CommandFailedEvents ==
    [RequestID : RequestIDs, CommandName : EventCommandNames, Duration : Durations]

\* event.GetSucceeded and event.ConnectionReturned, and two of the types the
\* pool monitor does not handle.
PoolEventTypes ==
    {"ConnectionCheckedOut", "ConnectionCheckedIn", "ConnectionCreated",
     "ConnectionCheckOutFailed"}

GetSucceeded == "ConnectionCheckedOut"

ConnectionReturned == "ConnectionCheckedIn"

PoolEvents == [Type : PoolEventTypes]

\* *PrometheusConfig values handed to NewPrometheusMetrics.
EmptyConfig == [Namespace |-> "", Subsystem |-> ""]

Configs == {Nil, Ptr(EmptyConfig), Ptr([Namespace |-> "app", Subsystem |-> "store"])}

\* conf.MongoDB values the plugin runs with.
Confs ==
    {[Database |-> "", MaxPoolSize |-> 0],
     [Database |-> "testdb", MaxPoolSize |-> 100]}

\* ------------------------------------------------------------------- state

VARIABLES
    config,                 \* the *PrometheusConfig NewPrometheusMetrics was given
    registry,               \* descriptors registered, in registration order
    panicked,               \* MustRegister panicked on a collision
    connectionPoolActive,   \* GaugeVec
    connectionPoolMax,      \* GaugeVec
    activeConnections,      \* GaugeVec
    operationsTotal,        \* CounterVec
    queryDuration,          \* HistogramVec: per child, count and sum
    errorsTotal,            \* CounterVec
    documentsProcessed,     \* CounterVec
    healthCheckTotal,       \* CounterVec
    healthCheckSuccess,     \* CounterVec
    healthCheckFailure,     \* CounterVec
    conf,                   \* PlugMongoDB.conf
    cmdMon,                 \* the installed *event.CommandMonitor (its labels)
    startedCmds,            \* the monitor's sync.Map: requestID -> struct{}{}
    poolMon,                \* the installed *event.PoolMonitor (its labels)
    poolActiveConns,        \* PlugMongoDB.poolActiveConns, behind activeCount
    ret,                    \* what the last entry-point call returned
    calls,                  \* entry-point calls made so far
    acquired,               \* GetSucceeded events delivered so far
    returned,               \* ConnectionReturned events delivered so far
    life,                   \* per request id, how far the driver has taken it
    orderly,                \* every start preceded its own completion so far
    hcTrue,                 \* RecordHealthCheck(true, cfg) calls on a live registry
    hcFalse,                \* RecordHealthCheck(false, cfg) calls on a live registry
    nSucceeded,             \* succeeded events handed to the concurrent handlers
    nFailed,                \* failed events handed to the concurrent handlers
    paired,                 \* every returned event so far followed the handler
                            \* of an acquired event of its own
    pc,                     \* per thread, its position in the handler it runs
    local,                  \* per thread, the handler's event and locals
    pureCall,               \* which pure function the pure specification applies
    cmdName,                \* its command-name input
    reply,                  \* its reply input
    opOut,                  \* the classifier's output
    nOut                    \* the extractor's output

instruments ==
    <<connectionPoolActive, connectionPoolMax, activeConnections,
      operationsTotal, queryDuration, errorsTotal, documentsProcessed,
      healthCheckTotal, healthCheckSuccess, healthCheckFailure>>

construction == <<config, registry, panicked, conf>>

monitors == <<cmdMon, startedCmds, poolMon, poolActiveConns>>

history ==
    <<acquired, returned, life, orderly, hcTrue, hcFalse, nSucceeded, nFailed,
      paired>>

threads == <<pc, local>>

pureVars == <<pureCall, cmdName, reply, opOut, nOut>>

vars ==
    <<construction, instruments, monitors, ret, calls, history, threads, pureVars>>

\* ------------------------------------------------------ metric primitives

\* The value of the child of vec for labels l (0 when no such child exists).
Val(vec, l) == IF l \in DOMAIN vec THEN vec[l] ELSE 0

\* vec.With(l).Add(v): creates the child on first use.
Add(vec, l, v) ==
    IF l \in DOMAIN vec THEN [vec EXCEPT ![l] = @ + v] ELSE vec @@ (l :> v)

\* vec.With(l).Inc()
Inc(vec, l) == Add(vec, l, 1)

\* vec.With(l).Set(v)
Set(vec, l, v) ==
    IF l \in DOMAIN vec THEN [vec EXCEPT ![l] = v] ELSE vec @@ (l :> v)

\* vec.With(l).Observe(v): one more observation, added to the child's sum.
Observe(vec, l, v) ==
    IF l \in DOMAIN vec
    THEN [vec EXCEPT ![l] = [count |-> @.count + 1, sum |-> @.sum + v]]
    ELSE vec @@ (l :> [count |-> 1, sum |-> v])

\* The number of observations of the child of a histogram for labels l.
ObsCount(vec, l) == IF l \in DOMAIN vec THEN vec[l].count ELSE 0

\* ------------------------------------------------------------ LabelBuilder

labelNames == <<"database">>

buildLabels(cfg) ==
    LET db == IF cfg # Nil /\ Deref(cfg).Database # ""
              THEN Deref(cfg).Database ELSE "test"
    IN  [database |-> db]

cloneLabels(in) == [k \in DOMAIN in |-> in[k]]

\* l[key] = value on a Go map.
SetLabel(l, key, value) ==
    [k \in DOMAIN l \cup {key} |-> IF k = key THEN value ELSE l[k]]

\* The label map both completion handlers build: a clone of the monitor's
\* labels with the operation added.
operationLabels(labels, commandName) ==
    SetLabel(cloneLabels(labels), "operation", mapCommandNameToOperation(commandName))

baseLabels_Aliased(labels, commandName) == operationLabels(labels, commandName)

\* The monitor's own labels map after a completion handler has run
\* l := cloneLabels(labels); l["operation"] = op.  cloneLabels fills a map it
\* makes, so the write to l does not reach labels.
baseLabels(labels, commandName) == labels

\* --------------------------------------------------------- MetricsRegistry

\* The ten collectors in the order MustRegister receives them.
InstrumentNames ==
    <<"connection_pool_active", "connection_pool_max", "active_connections",
      "operations_total", "query_duration_seconds", "errors_total",
      "documents_processed_total", "health_check_total",
      "health_check_success_total", "health_check_failure_total">>

\* The label names each collector is created with.
InstrumentLabelNames(name) ==
    IF name \in {"operations_total", "query_duration_seconds"}
    THEN Append(labelNames, "operation")
    ELSE labelNames

\* The configuration NewPrometheusMetrics works with after its two defaults.
EffectiveConfig(cfg) ==
    LET c == IF cfg = Nil THEN [Namespace |-> "lynx", Subsystem |-> "mongodb"]
             ELSE Deref(cfg)
    IN  IF c.Subsystem = "" THEN [c EXCEPT !.Subsystem = "mongodb"] ELSE c

Descriptor(cfg, name) ==
    [Namespace |-> cfg.Namespace, Subsystem |-> cfg.Subsystem, Name |-> name,
     LabelNames |-> InstrumentLabelNames(name)]

\* The collectors NewPrometheusMetrics creates, in field order.
Collectors(cfg) ==
    [i \in 1..Len(InstrumentNames) |-> Descriptor(EffectiveConfig(cfg), InstrumentNames[i])]

SameName(a, b) ==
    /\ a.Namespace = b.Namespace
    /\ a.Subsystem = b.Subsystem
    /\ a.Name = b.Name

\* registry.MustRegister(cs...): registers in order and panics at the first
\* collector whose fully-qualified name is already registered.
RECURSIVE MustRegister(_, _)
MustRegister(reg, cs) ==
    IF cs = <<>> THEN [registered |-> reg, panicked |-> FALSE]
    ELSE IF \E i \in 1..Len(reg) : SameName(reg[i], Head(cs))
         THEN [registered |-> reg, panicked |-> TRUE]
         ELSE MustRegister(Append(reg, Head(cs)), Tail(cs))

\* ----------------------------------------------------- handler statements

Store_Toggles(m, key) ==
    IF key \in DOMAIN m
    THEN [k \in DOMAIN m \ {key} |-> m[k]]
    ELSE [k \in DOMAIN m \cup {key} |-> "struct{}{}"]

\* startedCmds.Store(key, struct{}{})
Store(m, key) == [k \in DOMAIN m \cup {key} |-> "struct{}{}"]

Delete_AllRecords(m, key) == <<>>

\* startedCmds.Delete(key)
Delete(m, key) == [k \in DOMAIN m \ {key} |-> m[k]]

recordOperation_Overwrites(ops, labels, commandName) ==
    Set(ops, operationLabels(labels, commandName), 1)

\* m.operationsTotal.With(l).Inc() of both completion handlers.
recordOperation(ops, labels, commandName) ==
    Inc(ops, operationLabels(labels, commandName))

\* m.queryDuration.With(l).Observe(evt.Duration.Seconds()) of both handlers.
observeDuration(hist, labels, commandName, duration) ==
    Observe(hist, operationLabels(labels, commandName), duration)

recordDocuments_Unconditional(docs, labels, rep, commandName) ==
    Add(docs, labels, extractDocumentsFromReply(rep, commandName))

\* The succeeded handler's document count: added only when positive.
recordDocuments(docs, labels, rep, commandName) ==
    LET n == extractDocumentsFromReply(rep, commandName)
    IN  IF n > 0 THEN Add(docs, labels, n) ELSE docs

recordError_Dropped(errs, labels) == errs

\* m.errorsTotal.With(labels).Inc() of the failed handler.
recordError(errs, labels) == Inc(errs, labels)

poolDelta_Swapped(type) ==
    IF type = GetSucceeded THEN -1
    ELSE IF type = ConnectionReturned THEN 1
    ELSE 0

poolDelta_ReturnNotCounted(type) == IF type = GetSucceeded THEN 1 ELSE 0

\* atomic.AddInt64(activeCount, delta) of the pool handler for an event type;
\* 0 for the types the switch has no case for.
poolDelta(type) ==
    IF type = GetSucceeded THEN 1
    ELSE IF type = ConnectionReturned THEN -1
    ELSE 0

poolHandles_Every(type) == TRUE

\* Whether the pool handler's switch has a case for the event type.
poolHandles(type) == type \in {GetSucceeded, ConnectionReturned}

\* ------------------------------------------------------------------- Init

\* The state NewPrometheusMetrics(cfgIn) returns: ten collectors created and
\* registered, no child of any vector yet.
NewPrometheusMetrics(cfgIn) ==
    /\ config = cfgIn
    /\ LET r == MustRegister(<<>>, Collectors(cfgIn))
       IN  registry = r.registered /\ panicked = r.panicked
    /\ connectionPoolActive = <<>>
    /\ connectionPoolMax = <<>>
    /\ activeConnections = <<>>
    /\ operationsTotal = <<>>
    /\ queryDuration = <<>>
    /\ errorsTotal = <<>>
    /\ documentsProcessed = <<>>
    /\ healthCheckTotal = <<>>
    /\ healthCheckSuccess = <<>>
    /\ healthCheckFailure = <<>>

\* No monitor installed yet, the occupancy counter at its zero value.
NoMonitors ==
    /\ cmdMon = Nil
    /\ startedCmds = <<>>
    /\ poolMon = Nil
    /\ poolActiveConns = 0
    /\ ret = "none"
    /\ calls = 0

NoHistory ==
    /\ acquired = 0
    /\ returned = 0
    /\ life = [id \in RequestIDs |-> "none"]
    /\ orderly = TRUE
    /\ hcTrue = 0
    /\ hcFalse = 0
    /\ nSucceeded = 0
    /\ nFailed = 0
    /\ paired = TRUE

NoPureCall ==
    /\ pureCall = "none"
    /\ cmdName = ""
    /\ reply = NilReply
    /\ opOut = ""
    /\ nOut = 0

\* The threads of the concurrent specifications, all outside any handler.
Threads == {1, 2}

ThreadsIdle ==
    /\ pc = [t \in Threads |-> "idle"]
    /\ local = [t \in Threads |-> Nil]

\* The plugin's start: the registry constructed as the test constructs it
\* (the choice of names is exercised by InitPure below).
Init ==
    /\ NewPrometheusMetrics(Nil)
    /\ conf \in Confs
    /\ NoMonitors
    /\ NoHistory
    /\ ThreadsIdle
    /\ NoPureCall

\* --------------------------------- entry points, each call run to its end

\* The cfg arguments a caller passes: nil or the plugin's configuration.
CfgArgs == {Nil, Ptr(conf)}

\* mNil: the receiver m is nil.  The plugin installs one command monitor per
\* client, so a monitor is created only while none is installed.
CreateCommandMonitor(mNil, cfg) ==
    /\ calls < MaxCalls
    /\ calls' = calls + 1
    /\ IF mNil \/ cfg = Nil
       THEN /\ ret' = "nil"
            /\ UNCHANGED <<cmdMon, startedCmds>>
       ELSE /\ cmdMon = Nil
            /\ cmdMon' = Ptr([labels |-> buildLabels(cfg)])
            /\ startedCmds' = <<>>
            /\ ret' = "monitor"
    /\ UNCHANGED <<construction, instruments, poolMon, poolActiveConns,
                   history, threads, pureVars>>

\* The driver calls the callbacks of an installed monitor only.
Started(evt) ==
    /\ calls < MaxCalls
    /\ calls' = calls + 1
    /\ cmdMon # Nil
    /\ startedCmds' = Store(startedCmds, evt.RequestID)
    /\ UNCHANGED <<construction, instruments, cmdMon, poolMon, poolActiveConns,
                   ret, history, threads, pureVars>>

Succeeded(evt) ==
    /\ calls < MaxCalls
    /\ calls' = calls + 1
    /\ cmdMon # Nil
    /\ LET labels == Deref(cmdMon).labels
       IN  /\ operationsTotal' =
                recordOperation(operationsTotal, labels, evt.CommandName)
           /\ queryDuration' =
                observeDuration(queryDuration, labels, evt.CommandName, evt.Duration)
           /\ documentsProcessed' =
                recordDocuments(documentsProcessed, labels, evt.Reply, evt.CommandName)
    /\ cmdMon' = Ptr([labels |-> baseLabels(Deref(cmdMon).labels, evt.CommandName)])
    /\ startedCmds' = Delete(startedCmds, evt.RequestID)
    /\ UNCHANGED <<construction, connectionPoolActive, connectionPoolMax,
                   activeConnections, errorsTotal, healthCheckTotal,
                   healthCheckSuccess, healthCheckFailure, poolMon,
                   poolActiveConns, ret, history, threads, pureVars>>

Failed_OnlyIfPending(evt) ==
    /\ calls < MaxCalls
    /\ calls' = calls + 1
    /\ cmdMon # Nil
    /\ IF evt.RequestID \in DOMAIN startedCmds
       THEN LET labels == Deref(cmdMon).labels
            IN  /\ operationsTotal' =
                     recordOperation(operationsTotal, labels, evt.CommandName)
                /\ queryDuration' =
                     observeDuration(queryDuration, labels, evt.CommandName,
                                     evt.Duration)
                /\ errorsTotal' = recordError(errorsTotal, labels)
       ELSE UNCHANGED <<operationsTotal, queryDuration, errorsTotal>>
    /\ startedCmds' = Delete(startedCmds, evt.RequestID)
    /\ UNCHANGED <<construction, connectionPoolActive, connectionPoolMax,
                   activeConnections, documentsProcessed, healthCheckTotal,
                   healthCheckSuccess, healthCheckFailure, cmdMon, poolMon,
                   poolActiveConns, ret, history, threads, pureVars>>

Failed(evt) ==
    /\ calls < MaxCalls
    /\ calls' = calls + 1
    /\ cmdMon # Nil
    /\ LET labels == Deref(cmdMon).labels
       IN  /\ operationsTotal' =
                recordOperation(operationsTotal, labels, evt.CommandName)
           /\ queryDuration' =
                observeDuration(queryDuration, labels, evt.CommandName, evt.Duration)
           /\ errorsTotal' = recordError(errorsTotal, labels)
    /\ cmdMon' = Ptr([labels |-> baseLabels(Deref(cmdMon).labels, evt.CommandName)])
    /\ startedCmds' = Delete(startedCmds, evt.RequestID)
    /\ UNCHANGED <<construction, connectionPoolActive, connectionPoolMax,
                   activeConnections, documentsProcessed, healthCheckTotal,
                   healthCheckSuccess, healthCheckFailure, poolMon,
                   poolActiveConns, ret, history, threads, pureVars>>

\* The plugin installs one pool monitor per client, over poolActiveConns.
CreatePoolMonitor(mNil, cfg, activeCountNil) ==
    /\ calls < MaxCalls
    /\ calls' = calls + 1
    /\ IF mNil \/ cfg = Nil \/ activeCountNil
       THEN /\ ret' = "nil"
            /\ UNCHANGED poolMon
       ELSE /\ poolMon = Nil
            /\ poolMon' = Ptr([labels |-> buildLabels(cfg)])
            /\ ret' = "monitor"
    /\ UNCHANGED <<construction, instruments, cmdMon, startedCmds,
                   poolActiveConns, history, threads, pureVars>>

Event(evt) ==
    /\ calls < MaxCalls
    /\ calls' = calls + 1
    /\ poolMon # Nil
    /\ IF poolHandles(evt.Type)
       THEN LET labels == Deref(poolMon).labels
                n == poolActiveConns + poolDelta(evt.Type)
            IN  /\ poolActiveConns' = n
                /\ connectionPoolActive' = Set(connectionPoolActive, labels, n)
                /\ activeConnections' = Set(activeConnections, labels, n)
       ELSE UNCHANGED <<poolActiveConns, connectionPoolActive, activeConnections>>
    /\ acquired' = IF evt.Type = GetSucceeded THEN acquired + 1 ELSE acquired
    /\ returned' = IF evt.Type = ConnectionReturned THEN returned + 1 ELSE returned
    /\ UNCHANGED <<construction, connectionPoolMax, operationsTotal,
                   queryDuration, errorsTotal, documentsProcessed,
                   healthCheckTotal, healthCheckSuccess, healthCheckFailure,
                   cmdMon, startedCmds, poolMon, ret, life, orderly, hcTrue,
                   hcFalse, nSucceeded, nFailed, paired, threads, pureVars>>

UpdateConfigMetrics(mNil, cfg) ==
    /\ calls < MaxCalls
    /\ calls' = calls + 1
    /\ IF mNil \/ cfg = Nil
       THEN UNCHANGED connectionPoolMax
       ELSE connectionPoolMax' =
                Set(connectionPoolMax, buildLabels(cfg), Deref(cfg).MaxPoolSize)
    /\ UNCHANGED <<construction, connectionPoolActive, activeConnections,
                   operationsTotal, queryDuration, errorsTotal,
                   documentsProcessed, healthCheckTotal, healthCheckSuccess,
                   healthCheckFailure, monitors, ret, history, threads, pureVars>>

\* The nil check RecordHealthCheck opens with.
healthCheckSkipped_ReceiverOnly(mNil, cfg) == mNil

healthCheckSkipped(mNil, cfg) == mNil \/ cfg = Nil

RecordHealthCheck(mNil, success, cfg) ==
    /\ calls < MaxCalls
    /\ calls' = calls + 1
    /\ IF healthCheckSkipped(mNil, cfg)
       THEN UNCHANGED <<healthCheckTotal, healthCheckSuccess, healthCheckFailure,
                        hcTrue, hcFalse>>
       ELSE LET labels == buildLabels(cfg)
            IN  /\ healthCheckTotal' = Inc(healthCheckTotal, labels)
                /\ IF success
                   THEN /\ healthCheckSuccess' = Inc(healthCheckSuccess, labels)
                        /\ UNCHANGED healthCheckFailure
                   ELSE /\ healthCheckFailure' = Inc(healthCheckFailure, labels)
                        /\ UNCHANGED healthCheckSuccess
                /\ hcTrue' = IF success THEN hcTrue + 1 ELSE hcTrue
                /\ hcFalse' = IF success THEN hcFalse ELSE hcFalse + 1
    /\ UNCHANGED <<construction, connectionPoolActive, connectionPoolMax,
                   activeConnections, operationsTotal, queryDuration,
                   errorsTotal, documentsProcessed, monitors, ret, acquired,
                   returned, life, orderly, nSucceeded, nFailed, paired,
                   threads, pureVars>>

CallCreateCommandMonitor ==
    \E mNil \in BOOLEAN, cfg \in CfgArgs : CreateCommandMonitor(mNil, cfg)

CallCreatePoolMonitor ==
    \E mNil \in BOOLEAN, cfg \in CfgArgs, activeCountNil \in BOOLEAN :
        CreatePoolMonitor(mNil, cfg, activeCountNil)

CallUpdateConfigMetrics ==
    \E mNil \in BOOLEAN, cfg \in CfgArgs : UpdateConfigMetrics(mNil, cfg)

CallRecordHealthCheck ==
    \E mNil \in BOOLEAN, success \in BOOLEAN, cfg \in CfgArgs :
        RecordHealthCheck(mNil, success, cfg)

DeliverStarted == \E evt \in CommandStartedEvents : Started(evt)

DeliverSucceeded == \E evt \in CommandSucceededEvents : Succeeded(evt)

DeliverFailed == \E evt \in CommandFailedEvents : Failed(evt)

DeliverEvent == \E evt \in PoolEvents : Event(evt)

Next ==
    \/ CallCreateCommandMonitor
    \/ CallCreatePoolMonitor
    \/ CallUpdateConfigMetrics
    \/ CallRecordHealthCheck
    \/ DeliverStarted
    \/ DeliverSucceeded
    \/ DeliverFailed
    \/ DeliverEvent

Spec == Init /\ [][Next]_vars

\* ------------- the functions of their inputs alone: the constructor, the
\* ------------- classifier and the extractor

sysVars == <<construction, instruments, monitors, ret, calls, history, threads>>

InitPure ==
    /\ \E cfgIn \in Configs : NewPrometheusMetrics(cfgIn)
    /\ conf = [Database |-> "testdb", MaxPoolSize |-> 100]
    /\ NoMonitors
    /\ NoHistory
    /\ ThreadsIdle
    /\ opOut = ""
    /\ nOut = 0
    /\ \/ /\ pureCall = "classify"
          /\ cmdName \in CommandNames
          /\ reply = NilReply
       \/ /\ pureCall = "extract"
          /\ cmdName \in ExtractCommandNames
          /\ reply \in Replies

ApplyClassifier ==
    /\ pureCall = "classify"
    /\ opOut' = mapCommandNameToOperation(cmdName)
    /\ pureCall' = "classified"
    /\ UNCHANGED <<sysVars, cmdName, reply, nOut>>

ApplyExtractor ==
    /\ pureCall = "extract"
    /\ nOut' = extractDocumentsFromReply(reply, cmdName)
    /\ pureCall' = "extracted"
    /\ UNCHANGED <<sysVars, cmdName, reply, opOut>>

NextPure == ApplyClassifier \/ ApplyExtractor

SpecPure == InitPure /\ [][NextPure]_vars

\* ------------------------------------------ handlers running concurrently
\* Each thread runs one handler at a time, one statement that touches shared
\* state per step; the statements of different threads interleave freely.
\* Every vector operation and every sync.Map operation is atomic.

AllIdle == \A t \in Threads : pc[t] = "idle"

\* Events delivered to the concurrent command handlers; the replies are
\* empty, undecodable (with and without a decoded leading element) and n = 2.
ConcStartedEvents == [RequestID : RequestIDs, CommandName : {"findOne"}]

ConcSucceededEvents ==
    [RequestID : RequestIDs, CommandName : {"findOne"}, Duration : {1},
     Reply : {NilReply, MalformedReply, TruncatedReply,
              DocReply(<<2>>, <<>>, <<>>, <<>>, <<>>, <<>>)}]

ConcFailedEvents ==
    [RequestID : RequestIDs, CommandName : {"ping"}, Duration : {20}]

\* The state after NewPrometheusMetrics(nil) and CreateCommandMonitor(conf).
InitCmd ==
    /\ NewPrometheusMetrics(Nil)
    /\ conf \in Confs
    /\ cmdMon = Ptr([labels |-> buildLabels(Ptr(conf))])
    /\ startedCmds = <<>>
    /\ poolMon = Nil
    /\ poolActiveConns = 0
    /\ ret = "monitor"
    /\ calls = 1
    /\ NoHistory
    /\ ThreadsIdle
    /\ NoPureCall

\* The driver hands thread t a started event.  The delivery is in order when
\* the request id is not in flight.
BeginStarted(t, evt) ==
    /\ calls <= MaxCmdEvents
    /\ calls' = calls + 1
    /\ pc[t] = "idle"
    /\ pc' = [pc EXCEPT ![t] = "store"]
    /\ local' = [local EXCEPT ![t] = Ptr([kind |-> "started", evt |-> evt])]
    /\ IF orderly /\ life[evt.RequestID] \in {"none", "done"}
       THEN life' = [life EXCEPT ![evt.RequestID] = "starting"] /\ UNCHANGED orderly
       ELSE orderly' = FALSE /\ UNCHANGED life
    /\ UNCHANGED <<construction, instruments, monitors, ret, acquired, returned,
                   hcTrue, hcFalse, nSucceeded, nFailed, paired, pureVars>>

\* startedCmds.Store(evt.RequestID, struct{}{}), and the handler returns.
StepStore(t) ==
    /\ pc[t] = "store"
    /\ startedCmds' = Store(startedCmds, Deref(local[t]).evt.RequestID)
    /\ pc' = [pc EXCEPT ![t] = "idle"]
    /\ local' = [local EXCEPT ![t] = Nil]
    /\ life' = IF orderly
               THEN [life EXCEPT ![Deref(local[t]).evt.RequestID] = "started"]
               ELSE life
    /\ UNCHANGED <<construction, instruments, cmdMon, poolMon, poolActiveConns,
                   ret, calls, acquired, returned, orderly, hcTrue, hcFalse,
                   nSucceeded, nFailed, paired, pureVars>>

completionNext_DurationFirst(kind, stmt) ==
    CASE stmt = "entry" -> "duration"
      [] stmt = "duration" -> "operations"
      [] stmt = "operations" -> IF kind = "succeeded" THEN "documents" ELSE "error"
      [] stmt \in {"documents", "error"} -> "delete"
      [] stmt = "delete" -> "idle"

\* The order of a completion handler's statements: the statement that
\* follows stmt in the handler of kind ("entry" is the handler's start,
\* "idle" its return).
completionNext(kind, stmt) ==
    CASE stmt = "entry" -> "operations"
      [] stmt = "operations" -> "duration"
      [] stmt = "duration" -> IF kind = "succeeded" THEN "documents" ELSE "error"
      [] stmt \in {"documents", "error"} -> "delete"
      [] stmt = "delete" -> "idle"

\* The driver hands thread t a succeeded or failed event.  The delivery is in
\* order when the request's started handler has returned and no completion
\* of it was delivered before.  The handler classifies the command and builds
\* its label map l before its first metric statement.
BeginCompletion(t, kind, evt) ==
    /\ calls <= MaxCmdEvents
    /\ calls' = calls + 1
    /\ cmdMon' = Ptr([labels |-> baseLabels(Deref(cmdMon).labels, evt.CommandName)])
    /\ pc[t] = "idle"
    /\ pc' = [pc EXCEPT ![t] = completionNext(kind, "entry")]
    /\ local' = [local EXCEPT ![t] = Ptr([kind |-> kind, evt |-> evt])]
    /\ IF orderly /\ life[evt.RequestID] = "started"
       THEN life' = [life EXCEPT ![evt.RequestID] = "completing"] /\ UNCHANGED orderly
       ELSE orderly' = FALSE /\ UNCHANGED life
    /\ nSucceeded' = IF kind = "succeeded" THEN nSucceeded + 1 ELSE nSucceeded
    /\ nFailed' = IF kind = "failed" THEN nFailed + 1 ELSE nFailed
    /\ UNCHANGED <<construction, instruments, startedCmds, poolMon,
                   poolActiveConns, ret, acquired, returned, hcTrue, hcFalse,
                   paired, pureVars>>

\* m.operationsTotal.With(l).Inc()
StepOperations(t) ==
    /\ pc[t] = "operations"
    /\ operationsTotal' =
          recordOperation(operationsTotal, Deref(cmdMon).labels,
                          Deref(local[t]).evt.CommandName)
    /\ pc' = [pc EXCEPT ![t] = completionNext(Deref(local[t]).kind, "operations")]
    /\ UNCHANGED <<construction, connectionPoolActive, connectionPoolMax,
                   activeConnections, queryDuration, errorsTotal,
                   documentsProcessed, healthCheckTotal, healthCheckSuccess,
                   healthCheckFailure, monitors, ret, calls, history, local,
                   pureVars>>

\* m.queryDuration.With(l).Observe(evt.Duration.Seconds())
StepDuration(t) ==
    /\ pc[t] = "duration"
    /\ queryDuration' =
          observeDuration(queryDuration, Deref(cmdMon).labels,
                          Deref(local[t]).evt.CommandName,
                          Deref(local[t]).evt.Duration)
    /\ pc' = [pc EXCEPT ![t] = completionNext(Deref(local[t]).kind, "duration")]
    /\ UNCHANGED <<construction, connectionPoolActive, connectionPoolMax,
                   activeConnections, operationsTotal, errorsTotal,
                   documentsProcessed, healthCheckTotal, healthCheckSuccess,
                   healthCheckFailure, monitors, ret, calls, history, local,
                   pureVars>>

\* The succeeded handler's extraction and conditional Add.
StepDocuments(t) ==
    /\ pc[t] = "documents"
    /\ documentsProcessed' =
          recordDocuments(documentsProcessed, Deref(cmdMon).labels,
                          Deref(local[t]).evt.Reply,
                          Deref(local[t]).evt.CommandName)
    /\ pc' = [pc EXCEPT ![t] = completionNext(Deref(local[t]).kind, "documents")]
    /\ UNCHANGED <<construction, connectionPoolActive, connectionPoolMax,
                   activeConnections, operationsTotal, queryDuration,
                   errorsTotal, healthCheckTotal, healthCheckSuccess,
                   healthCheckFailure, monitors, ret, calls, history, local,
                   pureVars>>

\* m.errorsTotal.With(labels).Inc() of the failed handler.
StepError(t) ==
    /\ pc[t] = "error"
    /\ errorsTotal' = recordError(errorsTotal, Deref(cmdMon).labels)
    /\ pc' = [pc EXCEPT ![t] = completionNext(Deref(local[t]).kind, "error")]
    /\ UNCHANGED <<construction, connectionPoolActive, connectionPoolMax,
                   activeConnections, operationsTotal, queryDuration,
                   documentsProcessed, healthCheckTotal, healthCheckSuccess,
                   healthCheckFailure, monitors, ret, calls, history, local,
                   pureVars>>

\* startedCmds.Delete(evt.RequestID), and the handler returns.
StepDelete(t) ==
    /\ pc[t] = "delete"
    /\ startedCmds' = Delete(startedCmds, Deref(local[t]).evt.RequestID)
    /\ pc' = [pc EXCEPT ![t] = completionNext(Deref(local[t]).kind, "delete")]
    /\ local' = [local EXCEPT ![t] = Nil]
    /\ life' = IF orderly
               THEN [life EXCEPT ![Deref(local[t]).evt.RequestID] = "done"]
               ELSE life
    /\ UNCHANGED <<construction, instruments, cmdMon, poolMon, poolActiveConns,
                   ret, calls, acquired, returned, orderly, hcTrue, hcFalse,
                   nSucceeded, nFailed, paired, pureVars>>

NextCmd ==
    \E t \in Threads :
        \/ \E evt \in ConcStartedEvents : BeginStarted(t, evt)
        \/ StepStore(t)
        \/ \E evt \in ConcSucceededEvents : BeginCompletion(t, "succeeded", evt)
        \/ \E evt \in ConcFailedEvents : BeginCompletion(t, "failed", evt)
        \/ StepOperations(t)
        \/ StepDuration(t)
        \/ StepDocuments(t)
        \/ StepError(t)
        \/ StepDelete(t)

SpecCmd == InitCmd /\ [][NextCmd]_vars

\* RecordHealthCheck called by thread t: the nil check and buildLabels.
BeginHealthCheck(t, mNil, success, cfg) ==
    /\ calls < MaxCalls
    /\ calls' = calls + 1
    /\ pc[t] = "idle"
    /\ IF healthCheckSkipped(mNil, cfg)
       THEN UNCHANGED <<pc, local, hcTrue, hcFalse>>
       ELSE /\ pc' = [pc EXCEPT ![t] = "total"]
            /\ local' = [local EXCEPT ![t] =
                            Ptr([success |-> success, labels |-> buildLabels(cfg)])]
            /\ hcTrue' = IF success THEN hcTrue + 1 ELSE hcTrue
            /\ hcFalse' = IF success THEN hcFalse ELSE hcFalse + 1
    /\ UNCHANGED <<construction, instruments, monitors, ret, acquired, returned,
                   life, orderly, nSucceeded, nFailed, paired, pureVars>>

\* m.healthCheckTotal.With(labels).Inc()
StepHealthTotal(t) ==
    /\ pc[t] = "total"
    /\ healthCheckTotal' = Inc(healthCheckTotal, Deref(local[t]).labels)
    /\ pc' = [pc EXCEPT ![t] = "outcome"]
    /\ UNCHANGED <<construction, connectionPoolActive, connectionPoolMax,
                   activeConnections, operationsTotal, queryDuration,
                   errorsTotal, documentsProcessed, healthCheckSuccess,
                   healthCheckFailure, monitors, ret, calls, history, local,
                   pureVars>>

StepHealthOutcome_AlwaysSuccess(t) ==
    /\ pc[t] = "outcome"
    /\ healthCheckSuccess' = Inc(healthCheckSuccess, Deref(local[t]).labels)
    /\ pc' = [pc EXCEPT ![t] = "idle"]
    /\ local' = [local EXCEPT ![t] = Nil]
    /\ UNCHANGED <<construction, connectionPoolActive, connectionPoolMax,
                   activeConnections, operationsTotal, queryDuration,
                   errorsTotal, documentsProcessed, healthCheckTotal,
                   healthCheckFailure, monitors, ret, calls, history, pureVars>>

\* The success or the failure counter's Inc(), and the call returns.
StepHealthOutcome(t) ==
    /\ pc[t] = "outcome"
    /\ IF Deref(local[t]).success
       THEN /\ healthCheckSuccess' = Inc(healthCheckSuccess, Deref(local[t]).labels)
            /\ UNCHANGED healthCheckFailure
       ELSE /\ healthCheckFailure' = Inc(healthCheckFailure, Deref(local[t]).labels)
            /\ UNCHANGED healthCheckSuccess
    /\ pc' = [pc EXCEPT ![t] = "idle"]
    /\ local' = [local EXCEPT ![t] = Nil]
    /\ UNCHANGED <<construction, connectionPoolActive, connectionPoolMax,
                   activeConnections, operationsTotal, queryDuration,
                   errorsTotal, documentsProcessed, healthCheckTotal, monitors,
                   ret, calls, history, pureVars>>

NextHealth ==
    \E t \in Threads :
        \/ \E mNil \in BOOLEAN, success \in BOOLEAN, cfg \in CfgArgs :
              BeginHealthCheck(t, mNil, success, cfg)
        \/ StepHealthTotal(t)
        \/ StepHealthOutcome(t)

SpecHealth == Init /\ [][NextHealth]_vars

\* The state after NewPrometheusMetrics(nil) and
\* CreatePoolMonitor(conf, &poolActiveConns).
InitPool ==
    /\ NewPrometheusMetrics(Nil)
    /\ conf \in Confs
    /\ cmdMon = Nil
    /\ startedCmds = <<>>
    /\ poolMon = Ptr([labels |-> buildLabels(Ptr(conf))])
    /\ poolActiveConns = 0
    /\ ret = "monitor"
    /\ calls = 1
    /\ NoHistory
    /\ ThreadsIdle
    /\ NoPureCall

\* Acquired events whose handler has returned.
AcquiredDone ==
    acquired - Cardinality({t \in Threads :
                               /\ pc[t] # "idle"
                               /\ Deref(local[t]).evt.Type = GetSucceeded})

\* The driver hands thread t a pool event: the switch on evt.Type.  A type
\* without a case falls through and the handler returns.  A returned event is
\* paired when an acquired event's handler has finished that no earlier
\* returned event was paired with.
BeginEvent(t, evt) ==
    /\ calls <= MaxPoolEvents
    /\ calls' = calls + 1
    /\ pc[t] = "idle"
    /\ IF poolHandles(evt.Type)
       THEN /\ pc' = [pc EXCEPT ![t] = "add"]
            /\ local' = [local EXCEPT ![t] = Ptr([evt |-> evt, n |-> 0])]
       ELSE UNCHANGED <<pc, local>>
    /\ acquired' = IF evt.Type = GetSucceeded THEN acquired + 1 ELSE acquired
    /\ returned' = IF evt.Type = ConnectionReturned THEN returned + 1 ELSE returned
    /\ paired' = (paired /\ (evt.Type = ConnectionReturned => returned < AcquiredDone))
    /\ UNCHANGED <<construction, instruments, monitors, ret, life, orderly,
                   hcTrue, hcFalse, nSucceeded, nFailed, pureVars>>

\* atomic.AddInt64(activeCount, 1) or atomic.AddInt64(activeCount, -1)
StepAddInt64(t) ==
    /\ pc[t] = "add"
    /\ poolActiveConns' = poolActiveConns + poolDelta(Deref(local[t]).evt.Type)
    /\ pc' = [pc EXCEPT ![t] = "load"]
    /\ UNCHANGED <<construction, instruments, cmdMon, startedCmds, poolMon, ret,
                   calls, history, local, pureVars>>

\* n := float64(atomic.LoadInt64(activeCount))
StepLoadInt64(t) ==
    /\ pc[t] = "load"
    /\ local' = [local EXCEPT ![t] = Ptr([Deref(@) EXCEPT !.n = poolActiveConns])]
    /\ pc' = [pc EXCEPT ![t] = "setPoolActive"]
    /\ UNCHANGED <<construction, instruments, monitors, ret, calls, history,
                   pureVars>>

\* m.connectionPoolActive.With(labels).Set(n)
StepSetPoolActive(t) ==
    /\ pc[t] = "setPoolActive"
    /\ connectionPoolActive' =
          Set(connectionPoolActive, Deref(poolMon).labels, Deref(local[t]).n)
    /\ pc' = [pc EXCEPT ![t] = "setActive"]
    /\ UNCHANGED <<construction, connectionPoolMax, activeConnections,
                   operationsTotal, queryDuration, errorsTotal,
                   documentsProcessed, healthCheckTotal, healthCheckSuccess,
                   healthCheckFailure, monitors, ret, calls, history, local,
                   pureVars>>

\* m.activeConnections.With(labels).Set(n), and the handler returns.
StepSetActive(t) ==
    /\ pc[t] = "setActive"
    /\ activeConnections' =
          Set(activeConnections, Deref(poolMon).labels, Deref(local[t]).n)
    /\ pc' = [pc EXCEPT ![t] = "idle"]
    /\ local' = [local EXCEPT ![t] = Nil]
    /\ UNCHANGED <<construction, connectionPoolActive, connectionPoolMax,
                   operationsTotal, queryDuration, errorsTotal,
                   documentsProcessed, healthCheckTotal, healthCheckSuccess,
                   healthCheckFailure, monitors, ret, calls, history, pureVars>>

NextPool ==
    \E t \in Threads :
        \/ \E evt \in PoolEvents : BeginEvent(t, evt)
        \/ StepAddInt64(t)
        \/ StepLoadInt64(t)
        \/ StepSetPoolActive(t)
        \/ StepSetActive(t)

SpecPool == InitPool /\ [][NextPool]_vars

\* ------------------------------------------------------------------ claims

\* The mapping the classifier is specified to compute on the names it knows.
C1_Table ==
    [find |-> "find", findOne |-> "find",
     insert |-> "insert", insertOne |-> "insert", insertMany |-> "insert",
     update |-> "update", updateOne |-> "update", updateMany |-> "update",
     delete |-> "delete", deleteOne |-> "delete", deleteMany |-> "delete",
     remove |-> "delete", aggregate |-> "aggregate"]

\* C1: mapCommandNameToOperation maps, case-exactly, find and findOne to
\* "find"; insert, insertOne and insertMany to "insert"; update, updateOne and
\* updateMany to "update"; delete, deleteOne, deleteMany and remove to
\* "delete"; aggregate to "aggregate"; and every other string, the empty
\* string and differently-cased variants included, to itself.
C1_ClassifierTable ==
    pureCall = "classified" =>
        opOut = IF cmdName \in DOMAIN C1_Table THEN C1_Table[cmdName] ELSE cmdName

C1_Witness ==
    /\ pureCall = "classified"
    /\ cmdName = "Find"
    /\ opOut = "Find"

\* The first non-zero element of a sequence of integers, 0 when it has none.
RECURSIVE C2_FirstNonZero(_)
C2_FirstNonZero(vals) ==
    IF vals = <<>> THEN 0
    ELSE IF Head(vals) # 0 THEN Head(vals)
    ELSE C2_FirstNonZero(Tail(vals))

\* The six values of a reply document in the priority order of the policy.
C2_Priority(rep) ==
    <<FieldOrZero(rep.n), FieldOrZero(rep.nModified), FieldOrZero(rep.nInserted),
      FieldOrZero(rep.nRemoved),
      IF rep.cursor = <<>> THEN 0 ELSE Len(rep.cursor[1].firstBatch),
      IF rep.cursor = <<>> THEN 0 ELSE Len(rep.cursor[1].nextBatch)>>

\* C2: for every decodable reply the extractor returns the first non-zero
\* value in the order n, nModified, nInserted, nRemoved, length of
\* cursor.firstBatch, length of cursor.nextBatch, and 0 when all are zero or
\* absent; an empty reply yields 0 whatever the command name.
C2_ExtractPriority ==
    pureCall = "extracted" =>
        /\ reply.kind = "doc" => nOut = C2_FirstNonZero(C2_Priority(reply))
        /\ reply.kind = "empty" => nOut = 0

C2_Witness ==
    /\ pureCall = "extracted"
    /\ reply.kind = "doc"
    /\ reply.n = <<0>>
    /\ reply.nModified = <<>>
    /\ reply.nInserted = <<>>
    /\ reply.nRemoved = <<>>
    /\ reply.cursor # <<>>
    /\ Len(reply.cursor[1].firstBatch) = 0
    /\ Len(reply.cursor[1].nextBatch) = 1
    /\ nOut = 1

\* C3: the extractor's output is a non-negative integer for every reply
\* payload, replies whose n, nModified, nInserted or nRemoved is negative
\* included.
C3_ExtractNonNegative == pureCall = "extracted" => nOut >= 0

\* C4: starting from an occupancy counter of 0, with pool events delivered
\* one after another, the value published to connection_pool_active after
\* each handled event is the number of acquired events minus the number of
\* returned events so far (so N acquired then M returned leave N - M).
C4_PoolRunningCount ==
    acquired + returned > 0 =>
        /\ poolMon # Nil
        /\ Deref(poolMon).labels \in DOMAIN connectionPoolActive
        /\ connectionPoolActive[Deref(poolMon).labels] = acquired - returned

C4_Witness ==
    /\ acquired = 2
    /\ returned = 1
    /\ poolMon # Nil
    /\ Val(connectionPoolActive, Deref(poolMon).labels) = 1

\* The label map the claims expect on operations_total and the histogram.
ExpectedOpLabels(labels, commandName) ==
    [database |-> labels.database,
     operation |-> mapCommandNameToOperation(commandName)]

\* vec changed at child l only, where after(old) is its new value.
OnlyChild(vec, vecAfter, l, old, new) ==
    /\ DOMAIN vecAfter = DOMAIN vec \cup {l}
    /\ vecAfter[l] = new
    /\ l \in DOMAIN vec => vec[l] = old
    /\ \A k \in DOMAIN vec \ {l} : vecAfter[k] = vec[k]

\* C5: a command-succeeded event for command name c with reply r increments
\* operations_total by exactly 1 under (database, classify(c)), records
\* exactly one duration observation under the same labels, adds extract(r)
\* to documents_processed_total only when it is positive and otherwise
\* leaves that counter unchanged, leaves errors_total unchanged, and removes
\* the pending record of the event's request id.
C5_SucceededEffects ==
    [][\A evt \in CommandSucceededEvents :
          Succeeded(evt) =>
            LET labels == Deref(cmdMon).labels
                l == ExpectedOpLabels(labels, evt.CommandName)
                n == extractDocumentsFromReply(evt.Reply, evt.CommandName)
            IN  /\ OnlyChild(operationsTotal, operationsTotal', l,
                             Val(operationsTotal, l), Val(operationsTotal, l) + 1)
                /\ ObsCount(queryDuration', l) = ObsCount(queryDuration, l) + 1
                /\ \A k \in DOMAIN queryDuration' \ {l} :
                      k \in DOMAIN queryDuration /\ queryDuration'[k] = queryDuration[k]
                /\ IF n > 0
                   THEN OnlyChild(documentsProcessed, documentsProcessed', labels,
                                  Val(documentsProcessed, labels),
                                  Val(documentsProcessed, labels) + n)
                   ELSE documentsProcessed' = documentsProcessed
                /\ errorsTotal' = errorsTotal
                /\ evt.RequestID \notin DOMAIN startedCmds'
                /\ DOMAIN startedCmds' = DOMAIN startedCmds \ {evt.RequestID}
      ]_vars

C5_Witness ==
    /\ cmdMon # Nil
    /\ Val(operationsTotal, ExpectedOpLabels(Deref(cmdMon).labels, "findOne")) = 1
    /\ ObsCount(queryDuration, ExpectedOpLabels(Deref(cmdMon).labels, "findOne")) = 1
    /\ Val(documentsProcessed, Deref(cmdMon).labels) = 2
    /\ errorsTotal = <<>>
    /\ DOMAIN startedCmds = {2}

\* C6: a command-failed event for command name c increments operations_total
\* by exactly 1 under (database, classify(c)), records exactly one duration
\* observation under the same labels, increments errors_total by exactly 1,
\* leaves documents_processed_total unchanged, and removes the pending
\* record of the event's request id.
C6_FailedEffects ==
    [][\A evt \in CommandFailedEvents :
          Failed(evt) =>
            LET labels == Deref(cmdMon).labels
                l == ExpectedOpLabels(labels, evt.CommandName)
            IN  /\ OnlyChild(operationsTotal, operationsTotal', l,
                             Val(operationsTotal, l), Val(operationsTotal, l) + 1)
                /\ ObsCount(queryDuration', l) = ObsCount(queryDuration, l) + 1
                /\ \A k \in DOMAIN queryDuration' \ {l} :
                      k \in DOMAIN queryDuration /\ queryDuration'[k] = queryDuration[k]
                /\ OnlyChild(errorsTotal, errorsTotal', labels,
                             Val(errorsTotal, labels), Val(errorsTotal, labels) + 1)
                /\ documentsProcessed' = documentsProcessed
                /\ evt.RequestID \notin DOMAIN startedCmds'
                /\ DOMAIN startedCmds' = DOMAIN startedCmds \ {evt.RequestID}
      ]_vars

C6_Witness ==
    /\ cmdMon # Nil
    /\ Val(operationsTotal, ExpectedOpLabels(Deref(cmdMon).labels, "ping")) = 1
    /\ ObsCount(queryDuration, ExpectedOpLabels(Deref(cmdMon).labels, "ping")) = 1
    /\ Val(errorsTotal, Deref(cmdMon).labels) = 1
    /\ documentsProcessed = <<>>
    /\ DOMAIN startedCmds = {1}

\* The request ids started whose succeeded or failed event has not been
\* handled to its end.
PendingIds == {id \in RequestIDs : life[id] \in {"starting", "started", "completing"}}

\* C7: under any interleaving of command handlers in which each request's
\* start precedes its own completion, whenever no handler is mid-execution
\* the pending records are exactly those of the request ids started and not
\* yet completed (one record per id, none once every request has completed),
\* and a record is removed only by the completion handler of its own id.
C7_PendingRecords ==
    /\ [](orderly /\ AllIdle =>
            /\ DOMAIN startedCmds = PendingIds
            /\ PendingIds = {} => startedCmds = <<>>)
    /\ [][\A id \in RequestIDs :
            (id \in DOMAIN startedCmds /\ id \notin DOMAIN startedCmds') =>
                \E t \in Threads :
                    /\ pc[t] = "delete"
                    /\ pc'[t] = "idle"
                    /\ Deref(local[t]).evt.RequestID = id
         ]_vars

C7_Witness ==
    /\ orderly
    /\ AllIdle
    /\ life[1] = "done"
    /\ life[2] = "started"
    /\ DOMAIN startedCmds = {2}

\* C8: after N calls of RecordHealthCheck with success=true and M calls with
\* success=false, in any order and under any interleaving, once all calls
\* have returned health_check_total = N+M, health_check_success_total = N and
\* health_check_failure_total = M.
C8_HealthCounts ==
    AllIdle =>
        LET l == buildLabels(Ptr(conf))
        IN  /\ Val(healthCheckTotal, l) = hcTrue + hcFalse
            /\ Val(healthCheckSuccess, l) = hcTrue
            /\ Val(healthCheckFailure, l) = hcFalse
            /\ Val(healthCheckTotal, l) =
                  Val(healthCheckSuccess, l) + Val(healthCheckFailure, l)
            /\ DOMAIN healthCheckTotal \subseteq {l}
            /\ DOMAIN healthCheckSuccess \subseteq {l}
            /\ DOMAIN healthCheckFailure \subseteq {l}

C8_Witness ==
    /\ AllIdle
    /\ hcTrue = 2
    /\ hcFalse = 1
    /\ Val(healthCheckTotal, buildLabels(Ptr(conf))) = 3

\* C9: CreateCommandMonitor, CreatePoolMonitor, UpdateConfigMetrics and
\* RecordHealthCheck called with a nil registry or a nil configuration (or,
\* for CreatePoolMonitor, a nil occupancy counter) change no instrument, no
\* pending record and no occupancy counter, and the two constructors return
\* no monitor.
C9_NilInputsNoOp ==
    [][/\ \A mNil \in BOOLEAN, cfg \in CfgArgs :
            (mNil \/ cfg = Nil) =>
              /\ CreateCommandMonitor(mNil, cfg) =>
                    ret' = "nil" /\ UNCHANGED <<instruments, monitors>>
              /\ UpdateConfigMetrics(mNil, cfg) =>
                    UNCHANGED <<instruments, monitors>>
              /\ \A success \in BOOLEAN :
                    RecordHealthCheck(mNil, success, cfg) =>
                        UNCHANGED <<instruments, monitors>>
       /\ \A mNil \in BOOLEAN, cfg \in CfgArgs, activeCountNil \in BOOLEAN :
            (mNil \/ cfg = Nil \/ activeCountNil) =>
              (CreatePoolMonitor(mNil, cfg, activeCountNil) =>
                    ret' = "nil" /\ UNCHANGED <<instruments, monitors>>)
      ]_vars

C9_Witness ==
    /\ ret = "nil"
    /\ calls = 3
    /\ cmdMon # Nil
    /\ poolMon = Nil
    /\ \E l \in DOMAIN healthCheckTotal : healthCheckTotal[l] = 1

\* C10: constructing the registry with a nil configuration or with an empty
\* one (namespace and subsystem both empty) falls back to namespace "lynx"
\* and subsystem "mongodb" and registers each of the ten instruments exactly
\* once.
C10_DefaultsAndRegistration ==
    (config = Nil \/ config = Ptr(EmptyConfig)) =>
        /\ ~panicked
        /\ Len(registry) = Len(InstrumentNames)
        /\ \A i \in 1..Len(InstrumentNames) :
              Cardinality({j \in 1..Len(registry) :
                              registry[j].Name = InstrumentNames[i]}) = 1
        /\ \A j \in 1..Len(registry) :
              registry[j].Namespace = "lynx" /\ registry[j].Subsystem = "mongodb"

\* C11: a succeeded event whose reply bson.Unmarshal rejects is handled like
\* one with an empty reply.  The count extracted is 0, as for the empty reply;
\* the handler's statements increment operations_total and observe the
\* duration under (database, operation), go on to the document statement and
\* not to the error one, leave documents_processed_total as it is, remove the
\* request id's record and return; no statement of the handler touches
\* errors_total.
C11_MalformedAsEmpty ==
    [][\A t \in Threads :
          (/\ pc[t] # "idle"
           /\ Deref(local[t]).kind = "succeeded"
           /\ Deref(local[t]).evt.Reply.kind = "malformed") =>
            LET evt == Deref(local[t]).evt
                labels == Deref(cmdMon).labels
                l == ExpectedOpLabels(labels, evt.CommandName)
            IN  /\ extractDocumentsFromReply(evt.Reply, evt.CommandName) = 0
                /\ extractDocumentsFromReply(evt.Reply, evt.CommandName) =
                      extractDocumentsFromReply(NilReply, evt.CommandName)
                /\ StepOperations(t) =>
                      Val(operationsTotal', l) = Val(operationsTotal, l) + 1
                /\ StepDuration(t) =>
                      /\ ObsCount(queryDuration', l) = ObsCount(queryDuration, l) + 1
                      /\ pc'[t] = "documents"
                /\ StepDocuments(t) =>
                      /\ documentsProcessed' = documentsProcessed
                      /\ documentsProcessed' =
                            recordDocuments(documentsProcessed, labels, NilReply,
                                            evt.CommandName)
                      /\ pc'[t] = "delete"
                /\ StepDelete(t) =>
                      /\ evt.RequestID \notin DOMAIN startedCmds'
                      /\ pc'[t] = "idle"
                /\ pc'[t] # pc[t] => errorsTotal' = errorsTotal
      ]_vars

\* A succeeded handler has run all its metric statements on a reply that
\* failed to decode after its n element.
C11_Witness ==
    \E t \in Threads :
        /\ pc[t] = "delete"
        /\ Deref(local[t]).kind = "succeeded"
        /\ Deref(local[t]).evt.Reply = TruncatedReply
        /\ Val(operationsTotal,
               ExpectedOpLabels(Deref(cmdMon).labels, Deref(local[t]).evt.CommandName)) = 1
        /\ documentsProcessed = <<>>
        /\ errorsTotal = <<>>

\* The children of the instrument registered under a name.
Vec(name) ==
    CASE name = "connection_pool_active" -> connectionPoolActive
      [] name = "connection_pool_max" -> connectionPoolMax
      [] name = "active_connections" -> activeConnections
      [] name = "operations_total" -> operationsTotal
      [] name = "query_duration_seconds" -> queryDuration
      [] name = "errors_total" -> errorsTotal
      [] name = "documents_processed_total" -> documentsProcessed
      [] name = "health_check_total" -> healthCheckTotal
      [] name = "health_check_success_total" -> healthCheckSuccess
      [] name = "health_check_failure_total" -> healthCheckFailure

\* C12: every child of every instrument is keyed by exactly the label names
\* the instrument was declared with ({database, operation} for
\* operations_total and query_duration_seconds, {database} for the rest), and
\* the labels map the command monitor was created with is never modified: it
\* is still the {database} map buildLabels made.
C12_LabelKeys ==
    /\ \A i \in 1..Len(InstrumentNames) :
          \A l \in DOMAIN Vec(InstrumentNames[i]) :
              DOMAIN l = {InstrumentLabelNames(InstrumentNames[i])[j] :
                            j \in 1..Len(InstrumentLabelNames(InstrumentNames[i]))}
    /\ \A l \in DOMAIN operationsTotal \cup DOMAIN queryDuration :
          DOMAIN l = {"database", "operation"}
    /\ cmdMon # Nil =>
          /\ DOMAIN Deref(cmdMon).labels = {"database"}
          /\ Deref(cmdMon).labels = buildLabels(Ptr(conf))

\* Succeeded and failed handlers have run for two operations and have
\* returned, and documents and errors were counted.
C12_Witness ==
    /\ AllIdle
    /\ Cardinality(DOMAIN operationsTotal) = 2
    /\ Cardinality(DOMAIN queryDuration) = 2
    /\ documentsProcessed # <<>>
    /\ errorsTotal # <<>>

\* C13: once every pool handler has returned, connection_pool_active holds
\* the occupancy counter, which is the number of acquired events handled
\* minus the number of returned events handled.
C13_GaugeFollowsCounter ==
    AllIdle =>
        /\ poolActiveConns = acquired - returned
        /\ Val(connectionPoolActive, Deref(poolMon).labels) = poolActiveConns

\* C14: whenever no pool handler is running, active_connections and
\* connection_pool_active hold the same value.
C14_GaugesAgree ==
    AllIdle =>
        /\ DOMAIN activeConnections = DOMAIN connectionPoolActive
        /\ Val(activeConnections, Deref(poolMon).labels) =
              Val(connectionPoolActive, Deref(poolMon).labels)

\* The sum of f over the keys in S.
RECURSIVE SumOver(_, _)
SumOver(f, S) ==
    IF S = {} THEN 0
    ELSE LET x == CHOOSE y \in S : TRUE
         IN  f[x] + SumOver(f, S \ {x})

\* A counter summed over all its children.
Total(vec) == SumOver(vec, DOMAIN vec)

\* The observations of a histogram, summed over all its children.
TotalObs(hist) == SumOver([l \in DOMAIN hist |-> hist[l].count], DOMAIN hist)

\* C15: no update is lost.  Once all command handlers have returned,
\* operations_total summed over its operation labels and the number of
\* duration observations both equal the number of succeeded and failed events
\* handled, and errors_total equals the number of failed events handled.
C15_NoLostUpdate ==
    AllIdle =>
        /\ Total(operationsTotal) = nSucceeded + nFailed
        /\ TotalObs(queryDuration) = nSucceeded + nFailed
        /\ Total(errorsTotal) = nFailed

\* Two succeeded and two failed events have been handled.
C15_Witness ==
    /\ AllIdle
    /\ nSucceeded = 2
    /\ nFailed = 2
    /\ Total(operationsTotal) = 4

\* C16: a pool event whose type is neither GetSucceeded nor ConnectionReturned
\* changes nothing: its handler returns at once and leaves the occupancy
\* counter, connection_pool_active, active_connections and every other
\* instrument as they were, whatever other handlers are doing.
C16_OtherPoolEventsIgnored ==
    [][\A t \in Threads : \A evt \in PoolEvents :
          (evt.Type \notin {GetSucceeded, ConnectionReturned} /\ BeginEvent(t, evt)) =>
            /\ poolActiveConns' = poolActiveConns
            /\ connectionPoolActive' = connectionPoolActive
            /\ activeConnections' = activeConnections
            /\ instruments' = instruments
            /\ pc'[t] = "idle"
            /\ local'[t] = Nil
      ]_vars

\* One pool event has been delivered, of a type the monitor has no case for.
C16_Witness ==
    /\ poolMon # Nil
    /\ calls = 2
    /\ acquired = 0
    /\ returned = 0
    /\ AllIdle
    /\ poolActiveConns = 0
    /\ connectionPoolActive = <<>>
    /\ activeConnections = <<>>

\* C17: a started event only inserts the pending record of its request id.
\* Taking the event and the handler's one statement change no instrument;
\* the statement leaves the map with the records it had plus one for the
\* request id, and when the id already had a record the map is as it was,
\* with one record for that id.
C17_StartedOnlyStores ==
    [][\A t \in Threads :
          /\ \A evt \in ConcStartedEvents :
                BeginStarted(t, evt) =>
                    /\ instruments' = instruments
                    /\ startedCmds' = startedCmds
          /\ StepStore(t) =>
                LET id == Deref(local[t]).evt.RequestID
                IN  /\ instruments' = instruments
                    /\ DOMAIN startedCmds' = DOMAIN startedCmds \cup {id}
                    /\ \A k \in DOMAIN startedCmds : startedCmds'[k] = startedCmds[k]
                    /\ id \in DOMAIN startedCmds => startedCmds' = startedCmds
                    /\ pc'[t] = "idle"
      ]_vars

\* Two started events for request id 1 have been handled, the second while
\* the first was pending, and nothing else was delivered.
C17_Witness ==
    /\ AllIdle
    /\ calls = 3
    /\ nSucceeded = 0
    /\ nFailed = 0
    /\ ~orderly
    /\ DOMAIN startedCmds = {1}
    /\ operationsTotal = <<>>
    /\ queryDuration = <<>>

\* C19: the completion handlers record without looking the request id up.
\* A succeeded or failed event for an id that has no pending record still
\* increments operations_total and observes the duration under
\* (database, operation), a failed one still increments errors_total, and
\* the set of pending records is left as it was.
C19_CompletionWithoutRecord ==
    [][/\ \A evt \in CommandSucceededEvents :
            (evt.RequestID \notin DOMAIN startedCmds /\ Succeeded(evt)) =>
              LET l == ExpectedOpLabels(Deref(cmdMon).labels, evt.CommandName)
              IN  /\ Val(operationsTotal', l) = Val(operationsTotal, l) + 1
                  /\ ObsCount(queryDuration', l) = ObsCount(queryDuration, l) + 1
                  /\ errorsTotal' = errorsTotal
                  /\ startedCmds' = startedCmds
       /\ \A evt \in CommandFailedEvents :
            (evt.RequestID \notin DOMAIN startedCmds /\ Failed(evt)) =>
              LET labels == Deref(cmdMon).labels
                  l == ExpectedOpLabels(labels, evt.CommandName)
              IN  /\ Val(operationsTotal', l) = Val(operationsTotal, l) + 1
                  /\ ObsCount(queryDuration', l) = ObsCount(queryDuration, l) + 1
                  /\ Val(errorsTotal', labels) = Val(errorsTotal, labels) + 1
                  /\ startedCmds' = startedCmds
      ]_vars

\* The first event the installed monitor was handed is a failed event: no
\* started event came before it, and it was recorded.
C19_Witness ==
    /\ cmdMon # Nil
    /\ calls = 2
    /\ startedCmds = <<>>
    /\ Total(operationsTotal) = 1
    /\ TotalObs(queryDuration) = 1
    /\ Total(errorsTotal) = 1

\* While every returned event so far was paired, the counter, the values
\* handlers have loaded and are about to publish, and the values published
\* are all non-negative.
C18_NonNegativeWhilePaired ==
    paired =>
        /\ poolActiveConns >= 0
        /\ \A l \in DOMAIN connectionPoolActive : connectionPoolActive[l] >= 0
        /\ \A l \in DOMAIN activeConnections : activeConnections[l] >= 0
        /\ \A t \in Threads :
              pc[t] \in {"setPoolActive", "setActive"} => Deref(local[t]).n >= 0

\* The handler does not clamp: a returned event's AddInt64 takes one off the
\* counter whatever its value, LoadInt64 reads the counter as it is, and the
\* two Set statements publish the value read as it is.
C18_NoClamp ==
    \A t \in Threads :
        /\ (StepAddInt64(t) /\ Deref(local[t]).evt.Type = ConnectionReturned) =>
              poolActiveConns' = poolActiveConns - 1
        /\ StepLoadInt64(t) => Deref(local'[t]).n = poolActiveConns
        /\ StepSetPoolActive(t) =>
              connectionPoolActive'[Deref(poolMon).labels] = Deref(local[t]).n
        /\ StepSetActive(t) =>
              activeConnections'[Deref(poolMon).labels] = Deref(local[t]).n

\* C18: with a well-behaved event source (every returned event delivered
\* after the handler of an acquired event of its own has finished) the
\* occupancy counter is never negative and no negative value is published to
\* connection_pool_active or active_connections, under any interleaving; the
\* code itself does not clamp, so a returned event without a matching
\* acquired one takes the counter and the gauges below zero.
C18_NonNegativeIfPaired == []C18_NonNegativeWhilePaired /\ [][C18_NoClamp]_vars

\* A returned event came without a matching acquired one; the handlers have
\* returned, and the counter and both gauges are negative.
C18_Witness ==
    /\ ~paired
    /\ AllIdle
    /\ poolActiveConns < 0
    /\ Val(connectionPoolActive, Deref(poolMon).labels) < 0
    /\ Val(activeConnections, Deref(poolMon).labels) < 0

\* C20: each completion handler increments operations_total before it
\* observes the duration and before it increments errors_total.  So in every
\* reachable state, under any interleaving, each (database, operation) label
\* has at most as many duration observations as its operations_total counts,
\* and errors_total is at most operations_total summed over its operation
\* labels.
C20_OperationsFirst ==
    /\ \A l \in DOMAIN queryDuration \cup DOMAIN operationsTotal :
          ObsCount(queryDuration, l) <= Val(operationsTotal, l)
    /\ Total(errorsTotal) <= Total(operationsTotal)
    /\ \A t \in Threads :
          pc[t] \in {"duration", "documents", "error", "delete"} =>
              Val(operationsTotal,
                  ExpectedOpLabels(Deref(cmdMon).labels,
                                   Deref(local[t]).evt.CommandName)) >= 1

\* A failed handler has counted its operation and not yet observed its
\* duration, after another failed event of the same operation was handled.
C20_Witness ==
    \E t \in Threads :
        /\ pc[t] = "duration"
        /\ Deref(local[t]).kind = "failed"
        /\ LET l == ExpectedOpLabels(Deref(cmdMon).labels,
                                     Deref(local[t]).evt.CommandName)
           IN  /\ Val(operationsTotal, l) = 2
               /\ ObsCount(queryDuration, l) = 1
        /\ Total(errorsTotal) = 1

====
